---------------------------- MODULE Spec2Model ----------------------------
(***************************************************************************)
(* Adafruit_PureIO/spi.py: the spidev ioctl command encoder, the mode      *)
(* accessors, the constructor and the three transfer operations of class   *)
(* SPI, as a state machine whose steps are the system calls the code       *)
(* issues.                                                                 *)
(*                                                                         *)
(* Interpreter semantics are those of CPython 3 (setup.py: python_requires *)
(* >= 3.5, no upper bound): iterating a bytes object yields ints, ord(int) *)
(* raises TypeError.  array.tostring() is array.tobytes() up to CPython    *)
(* 3.8 and does not exist from CPython 3.9 on; which of the two            *)
(* interpreters runs the class is not fixed by the package, and the model  *)
(* admits both.                                                            *)
(*                                                                         *)
(* Python integers are unbounded.  An integer that takes part in a shift   *)
(* or a bitwise operation is held as the set of the positions of its 1     *)
(* bits, so that no intermediate value is cut to a machine width.          *)
(***************************************************************************)
EXTENDS Integers, Sequences, FiniteSets, TLC

VARIABLES
    fs,          \* the device nodes that exist in the file system
    dev_mode,    \* kernel side: the spidev mode byte
    dev_speed,   \* kernel side: max_speed_hz
    dev_bits,    \* kernel side: bits_per_word
    handle,      \* self.handle: <<>> before os.open, <<fd>> after
    opens,       \* number of os.open calls attempted
    pc,          \* position of the caller's thread inside the class
    op,          \* the public call in progress: its name and arguments
    local,       \* local variables of the method in progress
    ctor,        \* constructor frame: parameters and the statement reached
    log,         \* ioctl calls issued by the call in progress, in order
    result,      \* outcome of the call: returned value or raised exception
    start,       \* kernel mode byte when the call in progress began
    prev,        \* the previous completed call with its outcome
    enc,         \* encoder run: input triple and returned tuple
    has_tostring \* the interpreter's array.array has the method tostring

vars == <<fs, dev_mode, dev_speed, dev_bits, handle, opens, pc, op, local,
          ctor, log, result, start, prev, enc, has_tostring>>

-----------------------------------------------------------------------------
(* Bounds of the model *)

\* data lengths go up to MaxFullChunks full chunks plus a partial one
MaxFullChunks == 2
\* at most this many optional constructor parameters are supplied at once
MaxSupplied == 2

-----------------------------------------------------------------------------
(* Integers as bit sets *)

RECURSIVE Pow2(_)
Pow2(n) == IF n = 0 THEN 1 ELSE 2 * Pow2(n - 1)

\* positions of the 1 bits of a non-negative integer below 2^31
Bits(n) == {i \in 0..30 : (n \div Pow2(i)) % 2 = 1}

RECURSIVE BitsValue(_)
\* the integer whose 1 bits are at the positions in S (S within 0..30)
BitsValue(S) ==
    IF S = {} THEN 0
    ELSE LET i == CHOOSE j \in S : TRUE IN Pow2(i) + BitsValue(S \ {i})

\* x << k
Shl(S, k) == {i + k : i \in S}
\* x >> k
Shr(S, k) == {i - k : i \in {j \in S : j >= k}}
\* x | y
BitOr(S, T) == S \cup T
\* x & y
BitAnd(S, T) == S \cap T
\* x & ~y  (~y has every bit set that y has clear, at every position)
BitAndNot(S, T) == S \ T

-----------------------------------------------------------------------------
(* Module constants *)

SPI_CPHA == 1
SPI_CPOL == 2
SPI_CS_HIGH == 4
SPI_LSB_FIRST == 8
SPI_THREE_WIRE == 16
SPI_LOOP == 32
SPI_NO_CS == 64
SPI_READY == 128

SPI_CHUNK_SIZE == 4096

_IOC_WRITE == 1
_IOC_READ == 2

-----------------------------------------------------------------------------
(* struct.calcsize *)

\* size in bytes of one item of a struct format code
CodeSize(c) ==
    CASE c = "B" -> 1
      [] c = "H" -> 2
      [] c = "I" -> 4
      [] c = "Q" -> 8

\* offset rounded up to a multiple of a
AlignUp(offset, a) == ((offset + a - 1) \div a) * a

RECURSIVE CalcFrom(_, _, _)
CalcFrom(fmt, k, offset) ==
    IF k > Len(fmt) THEN offset
    ELSE LET n == fmt[k][1]
             s == CodeSize(fmt[k][2])
         IN  CalcFrom(fmt, k + 1, AlignUp(offset, s) + n * s)

\* struct.calcsize(structure) in native mode: every item is aligned to its
\* own size, no padding after the last item.  A format is a sequence of
\* <<repeat count, code>> items ("QQI" is <<2,"Q">>, <<1,"I">>).
calcsize(structure) == CalcFrom(structure, 1, 0)

_IOC_TRANSFER_FORMAT ==
    << <<2, "Q">>, <<2, "I">>, <<1, "H">>, <<4, "B">>, <<1, "H">> >>
FormatB == << <<1, "B">> >>
FormatI == << <<1, "I">> >>

-----------------------------------------------------------------------------
(* _ioc_encode *)

ioc_magic == 107
ioc_nrbits == 8
ioc_typebits == 8
\* mutation: the 13-bit size field of PPC, MIPS, Sparc and Alpha
ioc_sizebits_13 == 13
ioc_sizebits == 14
ioc_nrshift == 0
ioc_typeshift == ioc_nrshift + ioc_nrbits
ioc_sizeshift == ioc_typeshift + ioc_typebits
ioc_dirshift == ioc_sizeshift + ioc_sizebits

\* the four shifted fields that _ioc_encode ORs together
IocFields(direction, number, structure) ==
    [dir   |-> Shl(Bits(direction), ioc_dirshift),
     type  |-> Shl(Bits(ioc_magic), ioc_typeshift),
     nr    |-> Shl(Bits(number), ioc_nrshift),
     size  |-> Shl(Bits(calcsize(structure)), ioc_sizeshift)]

\* returns the tuple (direction, op, structure); op is a bit set
_ioc_encode(direction, number, structure) ==
    LET f == IocFields(direction, number, structure)
        opc == BitOr(BitOr(BitOr(f.dir, f.type), f.nr), f.size)
    IN  <<direction, opc, structure>>

_IOC_MESSAGE == _ioc_encode(_IOC_WRITE, 0, _IOC_TRANSFER_FORMAT)[2]
_IOC_RD_MODE == _ioc_encode(_IOC_READ, 1, FormatB)
_IOC_WR_MODE == _ioc_encode(_IOC_WRITE, 1, FormatB)
_IOC_RD_BITS_PER_WORD == _ioc_encode(_IOC_READ, 3, FormatB)
_IOC_WR_BITS_PER_WORD == _ioc_encode(_IOC_WRITE, 3, FormatB)
_IOC_RD_MAX_SPEED_HZ == _ioc_encode(_IOC_READ, 4, FormatI)
_IOC_WR_MAX_SPEED_HZ == _ioc_encode(_IOC_WRITE, 4, FormatI)

\* the two 16-bit halves of a 32-bit opcode, as integers
OpHi(opc) == BitsValue(Shr(opc, 16))
OpLo(opc) == BitsValue({i \in opc : i < 16})

-----------------------------------------------------------------------------
(* Python values *)

\* None is <<>>, any other value v is <<v>>
None == <<>>
Some(v) == <<v>>
\* truth value of an optional boolean: None and False are false
Truthy(v) == v # None /\ v[1]

Returned(v) == [kind |-> "return", value |-> v]
Raised(e) == [kind |-> "raise", value |-> e]
NoResult == [kind |-> "none", value |-> None]

\* the `size` bytes of an unsigned integer below 256^size, least significant
\* first (the byte order of the little-endian machines spidev runs on)
RECURSIVE LittleEndian(_, _)
LittleEndian(size, data) ==
    IF size = 0 THEN <<>>
    ELSE <<data % 256>> \o LittleEndian(size - 1, data \div 256)

\* struct.pack("=" + structure, data) for a one-item unsigned format of
\* `size` bytes (standard sizes): the bytes of data, or struct.error when
\* data is negative or does not fit the item.  Every integer of the model
\* is below 2^32 and fits an item of 4 bytes or more.
PackLE(size, data) ==
    IF data >= 0 /\ (size >= 4 \/ data < Pow2(8 * size))
    THEN Returned(LittleEndian(size, data))
    ELSE Raised("struct.error")

\* the integer a buffer of little-endian bytes holds: arg[0] of the array
\* the ioctl filled
RECURSIVE UnpackLE(_)
UnpackLE(bytes) ==
    IF bytes = <<>> THEN 0 ELSE bytes[1] + 256 * UnpackLE(Tail(bytes))

\* array.array('B', data).tostring(): the bytes object holding one byte per
\* word of the list (the words are unsigned bytes, the only values
\* array.array('B', ...) accepts) where the method exists, AttributeError
\* where it does not
tostring(data) ==
    IF has_tostring THEN Returned([i \in 1..Len(data) |-> data[i]])
    ELSE Raised("AttributeError")

\* create_string_buffer(init): a copy of the bytes plus a terminating NUL
create_string_buffer_init(bytes) == Append(bytes, 0)
\* create_string_buffer(size): size zero bytes
create_string_buffer_size(size) == [i \in 1..size |-> 0]

\* mutation: string_at(buffer) without the size, which reads a C string (up
\* to the first NUL)
string_at_cstr(buffer, size) ==
    LET nul == CHOOSE k \in 1..(Len(buffer) + 1) :
                   /\ (k = Len(buffer) + 1 \/ buffer[k] = 0)
                   /\ \A j \in 1..(k - 1) : buffer[j] # 0
    IN  SubSeq(buffer, 1, nul - 1)

\* string_at(buffer, size): the first size bytes of the buffer
string_at(buffer, size) == SubSeq(buffer, 1, size)

\* [ord(byte) for byte in bytes]: the items of a bytes object are ints, and
\* ord of an int raises TypeError at the first item
OrdEach(bytes) ==
    IF bytes = <<>> THEN Returned(Some(<<>>)) ELSE Raised("TypeError")

\* [byte for byte in bytes]: the list of the ints of a bytes object
ByteList(bytes) == Returned(Some([i \in 1..Len(bytes) |-> bytes[i]]))

\* data[i:j] for 0 <= i <= j: the slice is cut at the end of data
Slice(data, i, j) ==
    SubSeq(data, i + 1, IF j < Len(data) THEN j ELSE Len(data))

RECURSIVE RangeFrom(_, _, _)
\* range(lo, hi, step) as a sequence
RangeFrom(lo, hi, step) ==
    IF lo >= hi THEN <<>> ELSE <<lo>> \o RangeFrom(lo + step, hi, step)

\* mutation: the chunk list built from len(data) // SPI_CHUNK_SIZE whole chunks
ChunksWholeOnly(data) ==
    LET starts == RangeFrom(0, (Len(data) \div SPI_CHUNK_SIZE) * SPI_CHUNK_SIZE,
                            SPI_CHUNK_SIZE)
    IN  [k \in 1..Len(starts) |-> Slice(data, starts[k], starts[k] + SPI_CHUNK_SIZE)]

\* [data[i:i+SPI_CHUNK_SIZE] for i in range(0, len(data), SPI_CHUNK_SIZE)]
Chunks(data) ==
    LET starts == RangeFrom(0, Len(data), SPI_CHUNK_SIZE)
    IN  [k \in 1..Len(starts) |-> Slice(data, starts[k], starts[k] + SPI_CHUNK_SIZE)]

\* struct.pack(SPI._IOC_TRANSFER_FORMAT, tx, rx, length, max_speed_hz, delay,
\*             bits_per_word, 0, 0, 0, 0); a buffer address is held as
\* Some(the buffer), the address 0 as None
spi_ioc_transfer(tx, rx, length, max_speed_hz, delay, bits_per_word) ==
    [tx_buf |-> tx, rx_buf |-> rx, len |-> length, speed_hz |-> max_speed_hz,
     delay_usecs |-> delay, bits_per_word |-> bits_per_word, cs_change |-> 0,
     tx_nbits |-> 0, rx_nbits |-> 0, pad |-> 0]

-----------------------------------------------------------------------------
(* The mode properties *)

FlagNames == {"phase", "polarity", "cs_high", "lsb_first", "three_wire",
              "loop", "no_cs", "ready"}
ScalarNames == {"max_speed_hz", "bits_per_word", "mode"}

\* the bit mask each flag property hands to _get/_set_mode_field
ModeField(p) ==
    CASE p = "phase"      -> SPI_CPHA
      [] p = "polarity"   -> SPI_CPOL
      [] p = "cs_high"    -> SPI_CS_HIGH
      [] p = "lsb_first"  -> SPI_LSB_FIRST
      [] p = "three_wire" -> SPI_THREE_WIRE
      [] p = "loop"       -> SPI_LOOP
      [] p = "no_cs"      -> SPI_NO_CS
      [] p = "ready"      -> SPI_READY

\* the ioctl each scalar getter issues
ScalarRd(p) ==
    CASE p = "max_speed_hz"  -> _IOC_RD_MAX_SPEED_HZ
      [] p = "bits_per_word" -> _IOC_RD_BITS_PER_WORD
      [] p = "mode"          -> _IOC_RD_MODE

\* the ioctl each scalar setter issues
ScalarWr(p) ==
    CASE p = "max_speed_hz"  -> _IOC_WR_MAX_SPEED_HZ
      [] p = "bits_per_word" -> _IOC_WR_BITS_PER_WORD
      [] p = "mode"          -> _IOC_WR_MODE

\* True if mode & field else False
GetModeFieldValue(mode, field) ==
    BitAnd(Bits(mode), Bits(field)) # {}

\* mutation: the new mode built from 0 instead of from the mode read
SetModeFieldBlind(mode, field, value) ==
    IF Truthy(value) THEN field ELSE 0

\* mode |= field if value, else mode &= ~field
SetModeFieldValue(mode, field, value) ==
    IF Truthy(value)
    THEN BitsValue(BitOr(Bits(mode), Bits(field)))
    ELSE BitsValue(BitAndNot(Bits(mode), Bits(field)))

-----------------------------------------------------------------------------
(* The kernel's spidev driver behind fcntl.ioctl, and the file system *)

\* the device node of the bus the model drives
DevNode == "/dev/spidev0.0"

\* "/dev/spidev{:d}.{:d}".format(bus, dev)
DevicePath(bus, dev) == "/dev/spidev" \o ToString(bus) \o "." \o ToString(dev)

\* mutation: no existence check before os.open
os_path_exists_always(path) == TRUE

\* os.path.exists(device)
os_path_exists(path) == path \in fs

\* the bytes the driver copies out for a read request
KernelRead(req) ==
    CASE req = _IOC_RD_MODE[2]          -> LittleEndian(1, dev_mode)
      [] req = _IOC_RD_BITS_PER_WORD[2] -> LittleEndian(1, dev_bits)
      [] req = _IOC_RD_MAX_SPEED_HZ[2]  -> LittleEndian(4, dev_speed)

\* the driver stores the value copied in by a successful write request and
\* leaves its settings alone when the request fails
KernelWrite(req, bytes, ok) ==
    /\ dev_mode' = IF ok /\ req = _IOC_WR_MODE[2]
                   THEN UnpackLE(bytes) ELSE dev_mode
    /\ dev_bits' = IF ok /\ req = _IOC_WR_BITS_PER_WORD[2]
                   THEN UnpackLE(bytes) ELSE dev_bits
    /\ dev_speed' = IF ok /\ req = _IOC_WR_MAX_SPEED_HZ[2]
                    THEN UnpackLE(bytes) ELSE dev_speed

\* bytes the driver leaves in the receive buffer of one message of `length`
\* words: with SPI_LOOP set the input line carries what the output line
\* sends (zeros when there is no transmit buffer), otherwise what the
\* peripheral drives, here a constant level `line`
KernelMessage(tx, length, line) ==
    IF GetModeFieldValue(dev_mode, SPI_LOOP)
    THEN [i \in 1..length |-> IF tx = None THEN 0 ELSE tx[1][i]]
    ELSE [i \in 1..length |-> line]

\* levels a peripheral holds the input line at: all zeros, all ones
LineLevels == {0, 255}

-----------------------------------------------------------------------------
(* SPI._ioctl *)

\* _ioctl(ioctl_data, data): whether the call reaches its ioctl, what it
\* logs, returns and hands to the driver, given whether the system call
\* succeeds.  A read hands the driver an array of one zero item.  A write
\* packs data first, and struct.error leaves _ioctl before any ioctl.  A
\* failed ioctl raises OSError out of _ioctl.
_ioctl(ioctl_data, data, ok) ==
    LET direction == ioctl_data[1]
        ioctl_bytes == ioctl_data[2]
        size == calcsize(ioctl_data[3])
    IN  IF direction = _IOC_READ
        THEN LET arg == IF ok THEN KernelRead(ioctl_bytes)
                        ELSE LittleEndian(size, 0)
             IN  [issued |-> TRUE,
                  entry |-> [req |-> ioctl_bytes, dir |-> direction,
                             arg |-> arg, ok |-> ok],
                  res |-> IF ok THEN Returned(Some(UnpackLE(arg)))
                          ELSE Raised("OSError")]
        ELSE LET packed == PackLE(size, data)
             IN  IF packed.kind = "raise"
                 THEN [issued |-> FALSE,
                       entry |-> [req |-> ioctl_bytes, dir |-> direction,
                                  arg |-> <<>>, ok |-> FALSE],
                       res |-> packed]
                 ELSE [issued |-> TRUE,
                       entry |-> [req |-> ioctl_bytes, dir |-> direction,
                                  arg |-> packed.value, ok |-> ok],
                       res |-> IF ok THEN Returned(None)
                               ELSE Raised("OSError")]

\* the log after _ioctl: one more entry when the ioctl was issued
Logged(r) == IF r.issued THEN Append(log, r.entry) ELSE log

-----------------------------------------------------------------------------
(* Frames *)

NoOp == [name |-> "", kind |-> "", value |-> None]
NoLocal == [name |-> "", value |-> None, mode |-> 0]
NoPrev == [valid |-> FALSE, name |-> "", value |-> None, start |-> 0]
NoEnc == [in |-> <<_IOC_READ, 0, FormatB>>, out |-> <<>>]

\* the constructor's optional parameters in the order __init__ applies them
CtorOrder == <<"max_speed_hz", "bits_per_word", "phase", "polarity", "cs_high",
               "lsb_first", "three_wire", "loop", "no_cs", "ready">>
NoParams == [p \in {CtorOrder[k] : k \in 1..Len(CtorOrder)} |-> None]
NoBefore == [mode |-> 0, speed |-> 0, bits |-> 0]
NoCtor == [at |-> 0, sub |-> "test", params |-> NoParams, before |-> NoBefore]

kernel == <<dev_mode, dev_speed, dev_bits>>

\* a public call starts on the constructed object; prev is kept for a flag
\* getter only
Begin(o) ==
    /\ pc = "idle"
    /\ op' = o
    /\ log' = <<>>
    /\ start' = dev_mode
    /\ prev' = IF o.kind = "get" /\ o.name \in FlagNames THEN prev ELSE NoPrev

\* the caller has the outcome of the call and is free to call again; with
\* `noted`, prev remembers a flag setter that returned normally
Return(noted) ==
    /\ pc = "done"
    /\ pc' = "idle"
    /\ prev' = IF noted /\ op.kind = "set" /\ op.name \in FlagNames
                  /\ result.kind = "return"
               THEN [valid |-> TRUE, name |-> op.name, value |-> op.value,
                     start |-> start]
               ELSE NoPrev
    /\ op' = NoOp
    /\ local' = NoLocal
    /\ log' = <<>>
    /\ result' = NoResult
    /\ start' = dev_mode
    /\ UNCHANGED <<has_tostring, fs, dev_mode, dev_speed, dev_bits, handle, opens, ctor, enc>>

\* the method in progress ends with outcome res: control is back in the
\* caller, which is __init__ while the constructor runs
Finish(res) ==
    /\ result' = res
    /\ pc' = IF ctor.at = 0 THEN "done" ELSE "ctor"

\* property read self.<p>
StartGetter(p) ==
    /\ local' = [name |-> p, value |-> None, mode |-> 0]
    /\ pc' = IF p \in FlagNames THEN "get_mode_field" ELSE "get_scalar"

\* property write self.<p> = v
StartSetter(p, v) ==
    /\ local' = [name |-> p, value |-> v, mode |-> 0]
    /\ pc' = IF p \in FlagNames THEN "set_mode_field_rd" ELSE "set_scalar"

-----------------------------------------------------------------------------
(* Mode accessors *)

\* spi.phase, spi.polarity, ... spi.ready
FlagGet(p) ==
    /\ Begin([name |-> p, kind |-> "get", value |-> None])
    /\ StartGetter(p)
    /\ result' = NoResult
    /\ UNCHANGED <<has_tostring, fs, kernel, handle, opens, ctor, enc>>

\* spi.phase = v, ... spi.ready = v
FlagSet(p, v) ==
    /\ Begin([name |-> p, kind |-> "set", value |-> Some(v)])
    /\ StartSetter(p, Some(v))
    /\ result' = NoResult
    /\ UNCHANGED <<has_tostring, fs, kernel, handle, opens, ctor, enc>>

\* spi.max_speed_hz, spi.bits_per_word, spi.mode
ScalarGet(p) ==
    /\ Begin([name |-> p, kind |-> "get", value |-> None])
    /\ StartGetter(p)
    /\ result' = NoResult
    /\ UNCHANGED <<has_tostring, fs, kernel, handle, opens, ctor, enc>>

\* spi.max_speed_hz = v, spi.bits_per_word = v, spi.mode = v
ScalarSet(p, v) ==
    /\ Begin([name |-> p, kind |-> "set", value |-> Some(v)])
    /\ StartSetter(p, Some(v))
    /\ result' = NoResult
    /\ UNCHANGED <<has_tostring, fs, kernel, handle, opens, ctor, enc>>

\* return True if self._ioctl(SPI._IOC_RD_MODE) & field else False
_get_mode_field ==
    /\ pc = "get_mode_field"
    /\ \E ok \in BOOLEAN :
          LET r == _ioctl(_IOC_RD_MODE, None, ok)
          IN  /\ log' = Logged(r)
              /\ Finish(IF ok
                        THEN Returned(Some(GetModeFieldValue(
                                 r.res.value[1], ModeField(local.name))))
                        ELSE r.res)
    /\ UNCHANGED <<has_tostring, fs, kernel, handle, opens, op, local, ctor, start, prev, enc>>

\* mutation: the write is issued although the read raised
AfterModeReadAlways(ok) == "set_mode_field_wr"

\* where _set_mode_field goes after its read ioctl: on to the write, or out
\* with the exception
AfterModeRead(ok) == IF ok THEN "set_mode_field_wr" ELSE "raise"

\* mode = self._ioctl(SPI._IOC_RD_MODE)
_set_mode_field_read ==
    /\ pc = "set_mode_field_rd"
    /\ \E ok \in BOOLEAN :
          LET r == _ioctl(_IOC_RD_MODE, None, ok)
          IN  /\ log' = Logged(r)
              /\ IF AfterModeRead(ok) = "raise"
                 THEN Finish(r.res) /\ UNCHANGED local
                 ELSE /\ pc' = AfterModeRead(ok)
                      /\ local' = [local EXCEPT !.mode = UnpackLE(r.entry.arg)]
                      /\ UNCHANGED result
    /\ UNCHANGED <<has_tostring, fs, kernel, handle, opens, op, ctor, start, prev, enc>>

\* mode |= field or mode &= ~field; self._ioctl(SPI._IOC_WR_MODE, mode)
_set_mode_field_write ==
    /\ pc = "set_mode_field_wr"
    /\ \E ok \in BOOLEAN :
          LET mode == SetModeFieldValue(local.mode, ModeField(local.name),
                                        local.value)
              r == _ioctl(_IOC_WR_MODE, mode, ok)
          IN  /\ log' = Logged(r)
              /\ KernelWrite(r.entry.req, r.entry.arg, ok /\ r.issued)
              /\ Finish(r.res)
    /\ UNCHANGED <<has_tostring, fs, handle, opens, op, local, ctor, start, prev, enc>>

\* return self._ioctl(SPI._IOC_RD_<scalar>)
scalar_get ==
    /\ pc = "get_scalar"
    /\ \E ok \in BOOLEAN :
          LET r == _ioctl(ScalarRd(local.name), None, ok)
          IN  /\ log' = Logged(r)
              /\ Finish(r.res)
    /\ UNCHANGED <<has_tostring, fs, kernel, handle, opens, op, local, ctor, start, prev, enc>>

\* self._ioctl(SPI._IOC_WR_<scalar>, value)
scalar_set ==
    /\ pc = "set_scalar"
    /\ \E ok \in BOOLEAN :
          LET r == _ioctl(ScalarWr(local.name), local.value[1], ok)
          IN  /\ log' = Logged(r)
              /\ KernelWrite(r.entry.req, r.entry.arg, ok /\ r.issued)
              /\ Finish(r.res)
    /\ UNCHANGED <<has_tostring, fs, handle, opens, op, local, ctor, start, prev, enc>>

\* values the scalar setters are called with
ScalarValues(p) ==
    CASE p = "max_speed_hz"  -> {1000000, -1}
      [] p = "bits_per_word" -> {16, 256}
      [] p = "mode"          -> {0, 165, 256}

\* a controller constructed on an existing node, no call made yet.  Only
\* writebytes and transfer call array.tostring: the specifications without
\* them start with has_tostring = TRUE and none of their actions reads it.
Constructed ==
    /\ fs = {DevNode}
    /\ handle = Some(3)
    /\ opens = 1
    /\ pc = "idle"
    /\ op = NoOp
    /\ local = NoLocal
    /\ ctor = NoCtor
    /\ log = <<>>
    /\ result = NoResult
    /\ prev = NoPrev
    /\ dev_speed = 500000
    /\ dev_bits = 8

InitMode ==
    /\ Constructed
    /\ enc = NoEnc
    /\ has_tostring = TRUE
    /\ dev_mode \in 0..255
    /\ start = dev_mode

\* flag accessors only, each flag get remembering the flag set before it
NextMode ==
    \/ pc = "idle" /\ \E p \in FlagNames : FlagGet(p)
    \/ pc = "idle" /\ \E p \in FlagNames, v \in BOOLEAN : FlagSet(p, v)
    \/ _get_mode_field
    \/ _set_mode_field_read
    \/ _set_mode_field_write
    \/ Return(TRUE)

SpecMode == InitMode /\ [][NextMode]_vars

\* every accessor of the class
NextAccessor ==
    \/ pc = "idle" /\ \E p \in FlagNames : FlagGet(p)
    \/ pc = "idle" /\ \E p \in FlagNames, v \in BOOLEAN : FlagSet(p, v)
    \/ pc = "idle" /\ \E p \in ScalarNames : ScalarGet(p)
    \/ pc = "idle" /\ \E p \in ScalarNames : \E v \in ScalarValues(p) :
                         ScalarSet(p, v)
    \/ _get_mode_field
    \/ _set_mode_field_read
    \/ _set_mode_field_write
    \/ scalar_get
    \/ scalar_set
    \/ Return(FALSE)

SpecAccessor == InitMode /\ [][NextAccessor]_vars

-----------------------------------------------------------------------------
(* SPI.__init__ *)

\* the device argument: a (bus, device) tuple or a path string
TupleDevice(bus, dev) == [kind |-> "tuple", bus |-> bus, dev |-> dev, path |-> ""]
PathDevice(path) == [kind |-> "str", bus |-> 0, dev |-> 0, path |-> path]
Devices == {TupleDevice(0, 0), TupleDevice(9, 9),
            PathDevice(DevNode), PathDevice("/dev/spidev9.9")}

\* if isinstance(device, tuple): device = "/dev/spidev{:d}.{:d}".format(...)
CtorPath(device) ==
    IF device.kind = "tuple" THEN DevicePath(device.bus, device.dev)
    ELSE device.path

OptBool == {None, Some(TRUE), Some(FALSE)}
Supplied(params) == {p \in DOMAIN params : params[p] # None}

\* the keyword arguments of the constructor, at most MaxSupplied of them given
ParamChoices ==
    {params \in [max_speed_hz : {None, Some(1000000)},
                 bits_per_word : {None, Some(16)},
                 phase : OptBool, polarity : OptBool, cs_high : OptBool,
                 lsb_first : OptBool, three_wire : OptBool, loop : OptBool,
                 no_cs : OptBool, ready : OptBool] :
        Cardinality(Supplied(params)) <= MaxSupplied}

\* the statements of __init__ whose `if` reads the property (self.loop,
\* self.no_cs, self.ready) where the others test the parameter
GuardReadsProperty(p) == p \in {"loop", "no_cs", "ready"}

\* SPI(device, ...) up to self.handle = os.open(device, os.O_RDWR)
__init__(device, params) ==
    /\ pc = "new"
    /\ op' = [name |-> "__init__", kind |-> "call",
              value |-> [device |-> device, params |-> params]]
    /\ log' = <<>>
    /\ start' = dev_mode
    /\ IF ~os_path_exists(CtorPath(device))
       THEN /\ pc' = "failed"
            /\ result' = Raised("IOError")
            /\ UNCHANGED <<handle, opens, ctor>>
       ELSE /\ opens' = opens + 1
            /\ \E ok \in BOOLEAN :
                  IF ok
                  THEN /\ handle' = Some(3)
                       /\ pc' = "ctor"
                       /\ result' = NoResult
                       /\ ctor' = [at |-> 1, sub |-> "test", params |-> params,
                                   before |-> [mode |-> dev_mode,
                                               speed |-> dev_speed,
                                               bits |-> dev_bits]]
                  ELSE /\ pc' = "failed"
                       /\ result' = Raised("OSError")
                       /\ UNCHANGED <<handle, ctor>>
    /\ UNCHANGED <<has_tostring, fs, kernel, local, prev, enc>>

\* the ten `if ...: self.<p> = <p>` statements of __init__, one at a time;
\* control is here between two property accesses
apply_parameters ==
    /\ pc = "ctor"
    /\ LET k == ctor.at
           p == CtorOrder[k]
       IN  IF result.kind = "raise"
           THEN /\ pc' = "failed"
                /\ ctor' = [ctor EXCEPT !.at = 0]
                /\ UNCHANGED <<local, result>>
           ELSE IF k > Len(CtorOrder)
           THEN /\ pc' = "idle"
                /\ result' = Returned(None)
                /\ ctor' = [ctor EXCEPT !.at = 0]
                /\ UNCHANGED local
           ELSE IF ctor.sub = "test" /\ GuardReadsProperty(p)
           THEN /\ StartGetter(p)
                /\ result' = NoResult
                /\ ctor' = [ctor EXCEPT !.sub = "guard"]
           ELSE IF \/ ctor.sub = "test" /\ ctor.params[p] # None
                   \/ ctor.sub = "guard" /\ result.value # None
           THEN /\ StartSetter(p, ctor.params[p])
                /\ result' = NoResult
                /\ ctor' = [ctor EXCEPT !.sub = "set"]
           ELSE /\ ctor' = [ctor EXCEPT !.at = k + 1, !.sub = "test"]
                /\ result' = NoResult
                /\ UNCHANGED <<pc, local>>
    /\ UNCHANGED <<has_tostring, fs, kernel, handle, opens, op, log, start, prev, enc>>

\* mode bytes a device is found with: 0xA5 and 0x5A, each flag set in one
CtorModes == {SPI_READY + SPI_LOOP + SPI_CS_HIGH + SPI_CPHA,
              SPI_NO_CS + SPI_THREE_WIRE + SPI_LSB_FIRST + SPI_CPOL}

\* before construction: the node exists or not, nothing is open
Init ==
    /\ fs \in {{}, {DevNode}}
    /\ dev_mode \in CtorModes
    /\ dev_speed = 500000
    /\ dev_bits = 8
    /\ handle = None
    /\ opens = 0
    /\ pc = "new"
    /\ op = NoOp
    /\ local = NoLocal
    /\ ctor = NoCtor
    /\ log = <<>>
    /\ result = NoResult
    /\ start = dev_mode
    /\ prev = NoPrev
    /\ enc = NoEnc
    /\ has_tostring = TRUE

\* the construction of a controller
Next ==
    \/ /\ pc = "new"
       /\ \E device \in Devices, params \in ParamChoices :
             __init__(device, params)
    \/ apply_parameters
    \/ _get_mode_field
    \/ _set_mode_field_read
    \/ _set_mode_field_write
    \/ scalar_set

Spec == Init /\ [][Next]_vars

-----------------------------------------------------------------------------
(* The encoder on its own *)

EncDirections == {_IOC_WRITE, _IOC_READ}
EncNumbers == 0..255
EncCodes == {"B", "H", "I", "Q"}
\* repeat counts of the one-item formats
EncCounts == {0, 1, 3, 5461, 16383}
\* the formats of the class, one-item formats up to the widest size field,
\* two-item formats that need alignment
EncFormats ==
    {FormatB, FormatI, _IOC_TRANSFER_FORMAT}
    \cup {<< <<n, c>> >> : n \in EncCounts, c \in EncCodes}
    \cup {<< <<1, c>>, <<1, d>> >> : c \in EncCodes, d \in EncCodes}

InitIoc ==
    /\ Constructed
    /\ has_tostring = TRUE
    /\ dev_mode = 0
    /\ start = 0
    /\ \E direction \in EncDirections, number \in EncNumbers,
            structure \in EncFormats :
          enc = [in |-> <<direction, number, structure>>, out |-> <<>>]

\* one evaluation of _ioc_encode, as at class definition
Encode ==
    /\ enc.out = <<>>
    /\ enc' = [enc EXCEPT !.out = _ioc_encode(enc.in[1], enc.in[2], enc.in[3])]
    /\ UNCHANGED <<has_tostring, fs, kernel, handle, opens, pc, op, local, ctor, log, result,
                   start, prev>>

NextIoc == Encode

SpecIoc == InitIoc /\ [][NextIoc]_vars

-----------------------------------------------------------------------------
(* Transfers *)

\* offsets of a data length from a multiple of the chunk size
LengthOffsets == {0, 1, 3}
\* the data lengths of the model
Lengths == {k * SPI_CHUNK_SIZE + d : k \in 0..MaxFullChunks, d \in LengthOffsets}
\* the words of a data list: a ramp from `seed` that does not repeat with
\* the period of a chunk
DataOf(n, seed) == [i \in 1..n |-> (seed + i) % 251]
DataSeeds == {100}
\* the optional arguments of a transfer: the defaults, or overrides
XferOptions ==
    {[max_speed_hz |-> 0, bits_per_word |-> 0, delay |-> 0],
     [max_speed_hz |-> 500000, bits_per_word |-> 8, delay |-> 10]}

XferCall(name, data, length, opt) ==
    [name |-> name, kind |-> "call",
     value |-> [data |-> data, length |-> length, opt |-> opt]]

\* writebytes up to the first chunk: data to bytes, the list of chunks
writebytes(data, opt) ==
    /\ Begin(XferCall("writebytes", data, Len(data), opt))
    /\ LET bytes == tostring(data)
           chunks == IF bytes.kind = "raise" THEN <<>>
                     ELSE Chunks(bytes.value)
       IN  /\ local' = [chunks |-> chunks, i |-> 1]
           /\ IF bytes.kind = "raise"
              THEN pc' = "done" /\ result' = bytes
              ELSE IF chunks = <<>>
              THEN pc' = "done" /\ result' = Returned(None)
              ELSE pc' = "writebytes" /\ result' = NoResult
    /\ UNCHANGED <<has_tostring, fs, kernel, handle, opens, ctor, enc>>

\* mutation: the loop goes on after a chunk's ioctl failed
AfterChunkIgnore(ok, i, n) == IF i = n THEN "return" ELSE "next"

\* what follows the ioctl of chunk i of n: the exception leaves the loop
AfterChunk(ok, i, n) ==
    IF ~ok THEN "raise" ELSE IF i = n THEN "return" ELSE "next"

\* one turn of the for loop of writebytes: buffer, descriptor, ioctl
writebytes_chunk ==
    /\ pc = "writebytes"
    /\ \E ok \in BOOLEAN :
          LET chunk == local.chunks[local.i]
              length == Len(chunk)
              transmit_buffer == create_string_buffer_init(chunk)
              desc == spi_ioc_transfer(Some(transmit_buffer), None, length,
                          op.value.opt.max_speed_hz, op.value.opt.delay,
                          op.value.opt.bits_per_word)
              next == AfterChunk(ok, local.i, Len(local.chunks))
          IN  /\ log' = Append(log, [req |-> _IOC_MESSAGE, dir |-> _IOC_WRITE,
                                      arg |-> desc, ok |-> ok])
              /\ CASE next = "raise" ->
                        Finish(Raised("OSError")) /\ UNCHANGED local
                   [] next = "return" ->
                        Finish(Returned(None)) /\ UNCHANGED local
                   [] next = "next" ->
                        /\ local' = [local EXCEPT !.i = local.i + 1]
                        /\ UNCHANGED <<pc, result>>
    /\ UNCHANGED <<has_tostring, fs, kernel, handle, opens, op, ctor, start, prev, enc>>

\* readbytes up to its ioctl
readbytes(length, opt) ==
    /\ Begin(XferCall("readbytes", <<>>, length, opt))
    /\ local' = NoLocal
    /\ pc' = "readbytes"
    /\ result' = NoResult
    /\ UNCHANGED <<has_tostring, fs, kernel, handle, opens, ctor, enc>>

\* the body of readbytes: one buffer, one descriptor, one ioctl
readbytes_ioctl ==
    /\ pc = "readbytes"
    /\ \E ok \in BOOLEAN, line \in LineLevels :
          LET length == op.value.length
              receive_buffer ==
                  IF ok THEN KernelMessage(None, length, line)
                  ELSE create_string_buffer_size(length)
              desc == spi_ioc_transfer(None, Some(receive_buffer), length,
                          op.value.opt.max_speed_hz, op.value.opt.delay,
                          op.value.opt.bits_per_word)
          IN  /\ log' = Append(log, [req |-> _IOC_MESSAGE, dir |-> _IOC_WRITE,
                                      arg |-> desc, ok |-> ok])
              /\ Finish(IF ok THEN OrdEach(string_at(receive_buffer, length))
                        ELSE Raised("OSError"))
    /\ UNCHANGED <<has_tostring, fs, kernel, handle, opens, op, local, ctor, start, prev, enc>>

\* transfer up to its ioctl
transfer(data, opt) ==
    /\ Begin(XferCall("transfer", data, Len(data), opt))
    /\ local' = NoLocal
    /\ pc' = "transfer"
    /\ result' = NoResult
    /\ UNCHANGED <<has_tostring, fs, kernel, handle, opens, ctor, enc>>

\* the body of transfer: data to bytes, and where that raises nothing more;
\* otherwise two buffers, one descriptor, one ioctl
transfer_ioctl ==
    /\ pc = "transfer"
    /\ \E ok \in BOOLEAN, line \in LineLevels :
          LET bytes == tostring(op.value.data)
              data == IF bytes.kind = "raise" THEN <<>> ELSE bytes.value
              length == Len(data)
              transmit_buffer == create_string_buffer_init(data)
              receive_buffer ==
                  IF ok THEN KernelMessage(Some(transmit_buffer), length, line)
                  ELSE create_string_buffer_size(length)
              desc == spi_ioc_transfer(Some(transmit_buffer),
                          Some(receive_buffer), length,
                          op.value.opt.max_speed_hz, op.value.opt.delay,
                          op.value.opt.bits_per_word)
          IN  IF bytes.kind = "raise"
              THEN UNCHANGED log /\ Finish(bytes)
              ELSE /\ log' = Append(log, [req |-> _IOC_MESSAGE,
                                          dir |-> _IOC_WRITE,
                                          arg |-> desc, ok |-> ok])
                   /\ Finish(IF ok
                             THEN ByteList(string_at(receive_buffer, length))
                             ELSE Raised("OSError"))
    /\ UNCHANGED <<has_tostring, fs, kernel, handle, opens, op, local, ctor, start, prev, enc>>

\* a constructed controller on a device with loopback off or on, under an
\* interpreter with or without array.tostring
InitXfer ==
    /\ Constructed
    /\ enc = NoEnc
    /\ has_tostring \in BOOLEAN
    /\ dev_mode \in {0, SPI_LOOP}
    /\ start = dev_mode

NextXfer ==
    \/ /\ pc = "idle"
       /\ \E n \in Lengths, seed \in DataSeeds, opt \in XferOptions :
             writebytes(DataOf(n, seed), opt)
    \/ /\ pc = "idle"
       /\ \E n \in Lengths, opt \in XferOptions : readbytes(n, opt)
    \/ /\ pc = "idle"
       /\ \E n \in Lengths, seed \in DataSeeds, opt \in XferOptions :
             transfer(DataOf(n, seed), opt)
    \/ writebytes_chunk
    \/ readbytes_ioctl
    \/ transfer_ioctl
    \/ Return(FALSE)

SpecXfer == InitXfer /\ [][NextXfer]_vars

-----------------------------------------------------------------------------
(* Two threads sharing one controller *)

\* In this specification pc, op, local and result hold one entry per thread,
\* every log entry names the thread that issued it, and start is the mode
\* byte of the device before either call.  The class holds no lock, and
\* fcntl.ioctl gives up the interpreter lock for the system call: the steps
\* of the two threads interleave at each ioctl.
Threads == {"t1", "t2"}

\* mode bytes of the device before the two calls
ThreadModes == {0, 165, 255}

\* mutation: the byte composed from is the device's byte at the time of the
\* write, as if the read and the write were one indivisible step
ModeLocalAtomic(frame, device) == device

\* the local variable `mode` of _set_mode_field when the method composes the
\* new byte: the value its own read ioctl returned, whatever the device
\* holds by now
ModeLocal(frame, device) == frame.mode

\* thread t enters the setter of flag p with value v, no other thread being
\* inside the setter of the same flag
thread_set(t, p, v) ==
    /\ pc[t] = "idle"
    /\ \A u \in Threads \ {t} : op[u].name # p
    /\ op' = [op EXCEPT ![t] = [name |-> p, kind |-> "set", value |-> Some(v)]]
    /\ local' = [local EXCEPT ![t] = [name |-> p, value |-> Some(v), mode |-> 0]]
    /\ pc' = [pc EXCEPT ![t] = "set_mode_field_rd"]
    /\ UNCHANGED <<has_tostring, fs, kernel, handle, opens, ctor, log, result, start, prev,
                   enc>>

\* thread t: mode = self._ioctl(SPI._IOC_RD_MODE)
thread_set_mode_field_read(t) ==
    /\ pc[t] = "set_mode_field_rd"
    /\ \E ok \in BOOLEAN :
          LET r == _ioctl(_IOC_RD_MODE, None, ok)
          IN  /\ log' = Append(log, [thread |-> t, req |-> r.entry.req,
                                      dir |-> r.entry.dir, arg |-> r.entry.arg,
                                      ok |-> ok])
              /\ IF AfterModeRead(ok) = "raise"
                 THEN /\ result' = [result EXCEPT ![t] = r.res]
                      /\ pc' = [pc EXCEPT ![t] = "done"]
                      /\ UNCHANGED local
                 ELSE /\ pc' = [pc EXCEPT ![t] = AfterModeRead(ok)]
                      /\ local' = [local EXCEPT
                                      ![t].mode = UnpackLE(r.entry.arg)]
                      /\ UNCHANGED result
    /\ UNCHANGED <<has_tostring, fs, kernel, handle, opens, op, ctor, start, prev, enc>>

\* thread t: mode |= field or mode &= ~field;
\* self._ioctl(SPI._IOC_WR_MODE, mode)
thread_set_mode_field_write(t) ==
    /\ pc[t] = "set_mode_field_wr"
    /\ \E ok \in BOOLEAN :
          LET mode == SetModeFieldValue(ModeLocal(local[t], dev_mode),
                                        ModeField(local[t].name),
                                        local[t].value)
              r == _ioctl(_IOC_WR_MODE, mode, ok)
          IN  /\ log' = IF r.issued
                        THEN Append(log, [thread |-> t, req |-> r.entry.req,
                                          dir |-> r.entry.dir,
                                          arg |-> r.entry.arg, ok |-> ok])
                        ELSE log
              /\ KernelWrite(r.entry.req, r.entry.arg, ok /\ r.issued)
              /\ result' = [result EXCEPT ![t] = r.res]
              /\ pc' = [pc EXCEPT ![t] = "done"]
    /\ UNCHANGED <<has_tostring, fs, handle, opens, op, local, ctor, start, prev, enc>>

\* one constructed controller, two threads that have not called yet
InitThreads ==
    /\ has_tostring = TRUE
    /\ fs = {DevNode}
    /\ handle = Some(3)
    /\ opens = 1
    /\ ctor = NoCtor
    /\ enc = NoEnc
    /\ prev = NoPrev
    /\ log = <<>>
    /\ dev_speed = 500000
    /\ dev_bits = 8
    /\ dev_mode \in ThreadModes
    /\ start = dev_mode
    /\ pc = [t \in Threads |-> "idle"]
    /\ op = [t \in Threads |-> NoOp]
    /\ local = [t \in Threads |-> NoLocal]
    /\ result = [t \in Threads |-> NoResult]

\* each thread calls one flag setter; nothing orders the steps of one thread
\* against the steps of the other
NextThreads ==
    \/ \E t \in Threads, p \in FlagNames, v \in BOOLEAN : thread_set(t, p, v)
    \/ \E t \in Threads : thread_set_mode_field_read(t)
    \/ \E t \in Threads : thread_set_mode_field_write(t)

SpecThreads == InitThreads /\ [][NextThreads]_vars

-----------------------------------------------------------------------------
(* Claims about the transfers *)

\* bit position of each named flag in the mode byte (CPHA = 0x01 ... READY = 0x80)
FlagBitIndex(p) ==
    CASE p = "phase"      -> 0
      [] p = "polarity"   -> 1
      [] p = "cs_high"    -> 2
      [] p = "lsb_first"  -> 3
      [] p = "three_wire" -> 4
      [] p = "loop"       -> 5
      [] p = "no_cs"      -> 6
      [] p = "ready"      -> 7

\* bit k of a byte
ByteBit(byte, k) == (byte \div Pow2(k)) % 2 = 1

\* ceil(n / c)
CeilDiv(n, c) == (n + c - 1) \div c

Min(a, b) == IF a < b THEN a ELSE b

RECURSIVE SumLen(_, _)
\* sum of the len fields of the first k logged descriptors
SumLen(entries, k) ==
    IF k = 0 THEN 0 ELSE entries[k].arg.len + SumLen(entries, k - 1)

RECURSIVE ConcatRx(_, _)
\* the receive buffers of the first k logged descriptors, one after another
ConcatRx(entries, k) ==
    IF k = 0 THEN <<>>
    ELSE ConcatRx(entries, k - 1)
         \o SubSeq(entries[k].arg.rx_buf[1], 1, entries[k].arg.len)

\* log entry i + 1 is the message ioctl of chunk i (from 0) of data: bytes
\* [i*4096, min((i+1)*4096, N)), len the length of that range
CarriesChunk(entry, data, i) ==
    LET lo == i * SPI_CHUNK_SIZE
        hi == Min((i + 1) * SPI_CHUNK_SIZE, Len(data))
    IN  /\ entry.req = _IOC_MESSAGE
        /\ entry.arg.len = hi - lo
        /\ entry.arg.tx_buf # None
        /\ entry.arg.rx_buf = None
        /\ SubSeq(entry.arg.tx_buf[1], 1, entry.arg.len) = SubSeq(data, lo + 1, hi)

\* the chunking of writebytes where the interpreter has array.tostring: a
\* writebytes that returned issued ceil(N/4096) message ioctls, the i-th
\* carrying bytes [i*4096, min((i+1)*4096, N)) of data; every chunk is 4096
\* long except possibly the last, none is empty, the lengths sum to N.
C2_WriteChunks ==
    (pc = "done" /\ op.name = "writebytes" /\ result.kind = "return") =>
        LET data == op.value.data
            k == CeilDiv(Len(data), SPI_CHUNK_SIZE)
        IN  /\ Len(log) = k
            /\ \A i \in 0..(k - 1) :
                  /\ CarriesChunk(log[i + 1], data, i)
                  /\ log[i + 1].arg.len \in 1..SPI_CHUNK_SIZE
                  /\ i < k - 1 => log[i + 1].arg.len = SPI_CHUNK_SIZE
            /\ SumLen(log, k) = Len(data)

\* a write of exactly two chunks returned after two ioctls of 4096 bytes
C2_Witness ==
    /\ pc = "done" /\ op.name = "writebytes" /\ result.kind = "return"
    /\ Len(op.value.data) = 2 * SPI_CHUNK_SIZE
    /\ Len(log) = 2
    /\ log[2].arg.len = SPI_CHUNK_SIZE

\* C2 (as claimed): a writebytes of N bytes whose ioctls all succeed has
\* issued ceil(N/4096) message ioctls, the i-th carrying bytes
\* [i*4096, min((i+1)*4096, N)) of data, and has returned.
C2_WriteChunksEveryCall ==
    (pc = "done" /\ op.name = "writebytes"
       /\ \A j \in 1..Len(log) : log[j].ok) =>
        LET data == op.value.data
            k == CeilDiv(Len(data), SPI_CHUNK_SIZE)
        IN  /\ result = Returned(None)
            /\ Len(log) = k
            /\ \A i \in 0..(k - 1) :
                  /\ CarriesChunk(log[i + 1], data, i)
                  /\ log[i + 1].arg.len \in 1..SPI_CHUNK_SIZE
                  /\ i < k - 1 => log[i + 1].arg.len = SPI_CHUNK_SIZE
            /\ SumLen(log, k) = Len(data)

\* the loopback round trip where the interpreter has array.tostring: on a
\* device in loopback a transfer that returned gives back a list equal to
\* data, word for word and of the same length.
C3_LoopbackRoundTrip ==
    (pc = "done" /\ op.name = "transfer" /\ result.kind = "return"
       /\ ByteBit(dev_mode, FlagBitIndex("loop"))) =>
        /\ Len(result.value[1]) = Len(op.value.data)
        /\ result.value[1] = op.value.data

\* a looped-back transfer of 8195 words returned them
C3_Witness ==
    /\ pc = "done" /\ op.name = "transfer" /\ result.kind = "return"
    /\ ByteBit(dev_mode, FlagBitIndex("loop"))
    /\ Len(op.value.data) = 2 * SPI_CHUNK_SIZE + 3
    /\ Len(result.value[1]) = 2 * SPI_CHUNK_SIZE + 3
    /\ result.value[1][SPI_CHUNK_SIZE + 1] = op.value.data[SPI_CHUNK_SIZE + 1]

\* C3 (as claimed): on a device in loopback a transfer of N words whose
\* ioctls all succeed returns a list equal to data, for every N.
C3_LoopbackEveryCall ==
    (pc = "done" /\ op.name = "transfer"
       /\ ByteBit(dev_mode, FlagBitIndex("loop"))
       /\ \A j \in 1..Len(log) : log[j].ok) =>
        /\ result.kind = "return"
        /\ Len(result.value[1]) = Len(op.value.data)
        /\ result.value[1] = op.value.data

\* C4 (as claimed): a readbytes or transfer of N words whose ioctls all
\* succeed issues ceil(N/4096) message ioctls, none with len above 4096, and
\* returns the N received bytes, the receive buffers in chunk order.
C4_ReadTransferChunked ==
    (pc = "done" /\ op.name \in {"readbytes", "transfer"}
       /\ \A j \in 1..Len(log) : log[j].ok) =>
        /\ Len(log) = CeilDiv(op.value.length, SPI_CHUNK_SIZE)
        /\ \A j \in 1..Len(log) : log[j].arg.len <= SPI_CHUNK_SIZE
        /\ result.kind = "return"
        /\ Len(result.value[1]) = op.value.length
        /\ result.value[1] = ConcatRx(log, Len(log))

\* C5 (as claimed): a transfer operation given nothing to move issues no
\* ioctl and returns: None from writebytes, an empty list from the others.
C5_ZeroLengthNoIoctl ==
    (pc = "done" /\ op.kind = "call" /\ op.value.length = 0
       /\ \A j \in 1..Len(log) : log[j].ok) =>
        /\ Len(log) = 0
        /\ result = IF op.name = "writebytes" THEN Returned(None)
                    ELSE Returned(Some(<<>>))

\* C9: in writebytes a failed ioctl is the last one issued: the call has
\* ended by raising OSError, the entries before it are the chunks 0..i-1,
\* each issued once, in order and successfully, and the failed entry is
\* chunk i, issued once.  OSError comes from a failed ioctl only; the other
\* exception of writebytes, AttributeError, comes before any ioctl.
C9_WriteAbortsAtFailure ==
    (op.name = "writebytes") =>
        /\ \A j \in 1..Len(log) :
              ~log[j].ok =>
                  /\ j = Len(log)
                  /\ pc = "done"
                  /\ result = Raised("OSError")
                  /\ j <= CeilDiv(Len(op.value.data), SPI_CHUNK_SIZE)
                  /\ \A h \in 1..j : CarriesChunk(log[h], op.value.data, h - 1)
        /\ (pc = "done" /\ result = Raised("OSError")) =>
              (Len(log) >= 1 /\ ~log[Len(log)].ok)
        /\ (pc = "done" /\ result = Raised("AttributeError")) => log = <<>>

\* C9 witness: a write of three chunks raised at its second chunk; two
\* ioctls were issued, the first succeeded
C9_Witness ==
    /\ pc = "done" /\ op.name = "writebytes" /\ result = Raised("OSError")
    /\ Len(op.value.data) = 2 * SPI_CHUNK_SIZE + 3
    /\ Len(log) = 2
    /\ log[1].ok /\ ~log[2].ok

-----------------------------------------------------------------------------
(* Claims about the mode accessors *)

FlagSetReturned ==
    pc = "done" /\ op.kind = "set" /\ op.name \in FlagNames
    /\ result.kind = "return"

FlagGetReturned ==
    pc = "done" /\ op.kind = "get" /\ op.name \in FlagNames
    /\ result.kind = "return"

\* C1: after set(f, b) has returned, get(f) returns b and get(g) of every
\* other flag g returns what bit g of the mode byte was before the set; the
\* byte the set wrote differs from the byte it read in bit f at most.
C1_SetThenGet ==
    /\ FlagSetReturned =>
          /\ Len(log) = 2
          /\ dev_mode = log[2].arg[1]
          /\ log[1].arg[1] = start
          /\ \A k \in 0..7 :
                ByteBit(log[2].arg[1], k) =
                    IF k = FlagBitIndex(op.name) THEN op.value[1]
                    ELSE ByteBit(log[1].arg[1], k)
    /\ (FlagGetReturned /\ prev.valid) =>
          result.value[1] =
              IF op.name = prev.name THEN prev.value[1]
              ELSE ByteBit(prev.start, FlagBitIndex(op.name))

\* C1 witness: loop was cleared on a device whose mode byte was 0xA5, and
\* the get of loop that followed returned False
C1_Witness ==
    /\ FlagGetReturned
    /\ prev.valid /\ prev.name = "loop" /\ prev.value = Some(FALSE)
    /\ prev.start = 165
    /\ op.name = "loop"
    /\ result.value = Some(FALSE)
    /\ dev_mode = 133

\* the value fits the field the scalar setter of p packs it into
FitsScalar(p, v) == PackLE(calcsize(ScalarWr(p)[3]), v).kind = "return"

\* C10: a getter issues exactly one ioctl, a read; a flag setter issues a
\* mode read and then a mode write, and only the read when the read fails;
\* a scalar setter given a value of its field (8 bits for mode and
\* bits_per_word, 32 bits for max_speed_hz) issues exactly one ioctl, a
\* write.  A value outside the field is rejected by struct.pack before any
\* ioctl.
C10_IoctlCounts ==
    pc = "done" =>
      /\ op.kind = "get" =>
            /\ Len(log) = 1
            /\ log[1].dir = _IOC_READ
            /\ log[1].req = IF op.name \in FlagNames THEN _IOC_RD_MODE[2]
                            ELSE ScalarRd(op.name)[2]
      /\ (op.kind = "set" /\ op.name \in FlagNames) =>
            /\ Len(log) >= 1
            /\ log[1].dir = _IOC_READ /\ log[1].req = _IOC_RD_MODE[2]
            /\ IF log[1].ok
               THEN /\ Len(log) = 2
                    /\ log[2].dir = _IOC_WRITE /\ log[2].req = _IOC_WR_MODE[2]
               ELSE Len(log) = 1 /\ result.kind = "raise"
      /\ (op.kind = "set" /\ op.name \in ScalarNames) =>
            IF FitsScalar(op.name, op.value[1])
            THEN /\ Len(log) = 1
                 /\ log[1].dir = _IOC_WRITE
                 /\ log[1].req = ScalarWr(op.name)[2]
            ELSE /\ Len(log) = 0
                 /\ result = Raised("struct.error")
                 /\ dev_mode = start

\* C10 (as claimed): a getter issues exactly one ioctl, a read; a flag setter
\* issues a mode read and then a mode write, and only the read when the read
\* fails; every scalar setter call issues exactly one ioctl, a write,
\* whatever value it is given.
C10_IoctlCountsEveryCall ==
    pc = "done" =>
      /\ op.kind = "get" =>
            /\ Len(log) = 1
            /\ log[1].dir = _IOC_READ
            /\ log[1].req = IF op.name \in FlagNames THEN _IOC_RD_MODE[2]
                            ELSE ScalarRd(op.name)[2]
      /\ (op.kind = "set" /\ op.name \in FlagNames) =>
            /\ Len(log) >= 1
            /\ log[1].dir = _IOC_READ /\ log[1].req = _IOC_RD_MODE[2]
            /\ IF log[1].ok
               THEN /\ Len(log) = 2
                    /\ log[2].dir = _IOC_WRITE /\ log[2].req = _IOC_WR_MODE[2]
               ELSE Len(log) = 1 /\ result.kind = "raise"
      /\ (op.kind = "set" /\ op.name \in ScalarNames) =>
            /\ Len(log) = 1
            /\ log[1].dir = _IOC_WRITE
            /\ log[1].req = ScalarWr(op.name)[2]

\* C10 witness: a flag setter returned after a mode read and a mode write,
\* in that order
C10_Witness ==
    /\ pc = "done" /\ op.kind = "set" /\ op.name = "cs_high"
    /\ result.kind = "return"
    /\ Len(log) = 2
    /\ log[1].dir = _IOC_READ /\ log[2].dir = _IOC_WRITE
    /\ dev_mode # start

-----------------------------------------------------------------------------
(* Claims about the constructor *)

\* the value a setting of the device holds
Setting(p) ==
    CASE p = "max_speed_hz"  -> dev_speed
      [] p = "bits_per_word" -> dev_bits
      [] OTHER               -> ByteBit(dev_mode, FlagBitIndex(p))

\* the value the setting had when the constructor was entered
SettingBefore(p) ==
    CASE p = "max_speed_hz"  -> ctor.before.speed
      [] p = "bits_per_word" -> ctor.before.bits
      [] OTHER               -> ByteBit(ctor.before.mode, FlagBitIndex(p))

CtorReturned ==
    pc = "idle" /\ op.name = "__init__" /\ result.kind = "return"

\* C6 (as claimed): after a successful construction every supplied setting
\* holds the supplied value and every other setting the value the device had
\* before; with no optional parameter no write ioctl is issued.
C6_CtorAppliesOnlySupplied ==
    CtorReturned =>
        /\ \A p \in DOMAIN op.value.params :
              Setting(p) = IF op.value.params[p] # None
                           THEN op.value.params[p][1]
                           ELSE SettingBefore(p)
        /\ Supplied(op.value.params) = {} =>
              \A j \in 1..Len(log) : log[j].dir # _IOC_WRITE

\* C7: a construction on a path that does not exist has failed with IOError
\* and has attempted no open and no ioctl, whatever parameters it was given.
C7_MissingDeviceFailsFirst ==
    (op.name = "__init__" /\ CtorPath(op.value.device) \notin fs) =>
        /\ pc = "failed"
        /\ result = Raised("IOError")
        /\ opens = 0
        /\ handle = None
        /\ log = <<>>
        /\ dev_mode = start

\* C7 witness: SPI("/dev/spidev9.9", loop=True, max_speed_hz=...) beside an
\* existing /dev/spidev0.0 failed before any system call
C7_Witness ==
    /\ pc = "failed" /\ op.name = "__init__"
    /\ op.value.device = PathDevice("/dev/spidev9.9")
    /\ fs = {DevNode}
    /\ Supplied(op.value.params) = {"loop", "max_speed_hz"}
    /\ result = Raised("IOError")
    /\ opens = 0 /\ log = <<>>

-----------------------------------------------------------------------------
(* Claims about the encoder *)

\* C8: for direction 1 or 2, number 0..255 and a payload size below 2^14 the
\* opcode is direction*2^30 + size*2^16 + 107*2^8 + number (given here as
\* its two 16-bit halves), below 2^32, its four fields disjoint; mode-read
\* with a 1-byte payload is 0x80016B01, the message command 0x40206B00.
C8_OpcodeValue ==
    (enc.out # <<>> /\ calcsize(enc.in[3]) < Pow2(14)) =>
        LET direction == enc.in[1]
            number == enc.in[2]
            size == calcsize(enc.in[3])
            opc == enc.out[2]
            f == IocFields(direction, number, enc.in[3])
        IN  /\ enc.out[1] = direction
            /\ enc.out[3] = enc.in[3]
            /\ opc \subseteq 0..31
            /\ OpHi(opc) = direction * Pow2(14) + size
            /\ OpLo(opc) = 107 * Pow2(8) + number
            /\ f.dir \cap f.size = {} /\ f.dir \cap f.type = {}
            /\ f.dir \cap f.nr = {} /\ f.size \cap f.type = {}
            /\ f.size \cap f.nr = {} /\ f.type \cap f.nr = {}
            /\ f.nr \subseteq 0..7 /\ f.type \subseteq 8..15
            /\ f.size \subseteq 16..29 /\ f.dir \subseteq 30..31
            /\ enc.in = <<_IOC_READ, 1, FormatB>> =>
                  (OpHi(opc) = 32769 /\ OpLo(opc) = 27393)
            /\ enc.in = <<_IOC_WRITE, 0, _IOC_TRANSFER_FORMAT>> =>
                  (OpHi(opc) = 16416 /\ OpLo(opc) = 27392)

\* C8 witness: the read command 255 with the widest payload, 16383 bytes,
\* encoded to 0xBFFF6BFF
C8_Witness ==
    /\ enc.in = <<_IOC_READ, 255, << <<16383, "B">> >> >>
    /\ enc.out # <<>>
    /\ OpHi(enc.out[2]) = 49151
    /\ OpLo(enc.out[2]) = 27647

-----------------------------------------------------------------------------
(* Claims about two threads *)

\* position in the log of the ioctl of direction d that thread t issued
IoctlAt(t, d) ==
    CHOOSE j \in 1..Len(log) : log[j].thread = t /\ log[j].dir = d

\* both threads are back from their setters without an exception
BothSettersReturned ==
    \A t \in Threads : pc[t] = "done" /\ result[t].kind = "return"

\* the whole call of thread a came before the first ioctl of thread b
Serialized(a, b) == IoctlAt(a, _IOC_WRITE) < IoctlAt(b, _IOC_READ)

\* both threads read the mode byte before either wrote it
ReadsBeforeWrites ==
    \A a, b \in Threads : IoctlAt(a, _IOC_READ) < IoctlAt(b, _IOC_WRITE)

\* the flag of thread t holds what t asked for
Holds(t) == ByteBit(dev_mode, FlagBitIndex(op[t].name)) = op[t].value[1]

\* C11: two threads have set two different flags through one controller and
\* both calls returned.  If both read ioctls came before both write ioctls,
\* the device holds the byte the later writer composed from the byte before
\* both calls: the later writer's flag as requested, the earlier writer's
\* flag as it was before, so that the earlier writer's update is lost
\* whenever it asked for a change.  If one call was over before the other
\* began, both flags hold the requested values.  Every other bit is as
\* before in both cases.
C11_UnlockedSetters ==
    BothSettersReturned =>
        /\ Len(log) = 4
        /\ \A a, b \in Threads :
              (a # b /\ Serialized(a, b)) => (Holds(a) /\ Holds(b))
        /\ \A a, b \in Threads :
              (a # b /\ ReadsBeforeWrites
                 /\ IoctlAt(a, _IOC_WRITE) < IoctlAt(b, _IOC_WRITE)) =>
                  /\ Holds(b)
                  /\ ByteBit(dev_mode, FlagBitIndex(op[a].name)) =
                         ByteBit(start, FlagBitIndex(op[a].name))
                  /\ (op[a].value[1] #
                         ByteBit(start, FlagBitIndex(op[a].name))) => ~Holds(a)
        /\ \A k \in 0..7 :
              (\A t \in Threads : k # FlagBitIndex(op[t].name)) =>
                  ByteBit(dev_mode, k) = ByteBit(start, k)

\* C11 witness: on a device with mode byte 0, t1 set loop and t2 set cs_high
\* at once: read, read, write of t1, write of t2; both returned and loop is
\* clear
C11_Witness ==
    /\ BothSettersReturned
    /\ start = 0
    /\ op["t1"] = [name |-> "loop", kind |-> "set", value |-> Some(TRUE)]
    /\ op["t2"] = [name |-> "cs_high", kind |-> "set", value |-> Some(TRUE)]
    /\ ReadsBeforeWrites
    /\ IoctlAt("t1", _IOC_WRITE) < IoctlAt("t2", _IOC_WRITE)
    /\ dev_mode = SPI_CS_HIGH
    /\ ~Holds("t1") /\ Holds("t2")

=============================================================================
